---- MODULE Spec2Model ----
(***************************************************************************)
(* Model of the franchise-name matcher: normalize_franchise_names.py       *)
(* (sanitize_name, harmonize_name) and match_to_fruns.py (exact, franchisor*)
(* and fuzzy matching, merged back onto the input rows).                   *)
(*                                                                         *)
(* A string that went through the first half of _sanitize_single is a run  *)
(* of [a-z0-9] words separated by single spaces; it is represented as the  *)
(* sequence of its words, the empty string being <<>>.  A raw input string *)
(* is a sequence of items, each a chunk of letters followed by one         *)
(* separator character.                                                    *)
(***************************************************************************)
EXTENDS Integers, Sequences, FiniteSets, TLC

VARIABLES
    san_pc,        \* sanitizer run: "start", "once" (sanitize_name returned), "twice"
    san_raw,       \* the raw argument x of sanitize_name
    san_min,       \* the argument min_chars
    san_first,     \* what the first call computed: normalized, stripped, result
    san_second,    \* result of sanitize_name applied to the first result
    pc,            \* match_to_fruns: "start", "prepared", "exact_tried",
                   \* "fuzzy_tried", "done" (returned), "failed" (raised)
    data,          \* argument data: the input rows, in order
    fruns_data,    \* argument fruns_data: the reference table
    harmonize_map, \* argument harmonize_map
    method,        \* argument method
    keep_details,  \* argument keep_details
    max_distance,  \* argument max_distance
    jw,            \* Jaro-Winkler distance of each pair of distinct names
    prepared,      \* local prepared
    exact_matches, \* local exact_matches
    unmatched,     \* the rows handed to _match_fuzzy
    best_matches,  \* _match_fuzzy's list best_matches
    fuzzy_matches, \* local fuzzy_matches
    result,        \* the returned frame
    error          \* the exception raised, "" if none

sanVars == <<san_pc, san_raw, san_min, san_first, san_second>>

argVars == <<data, fruns_data, harmonize_map, method, keep_details, max_distance, jw>>

matchVars == <<pc, prepared, exact_matches, unmatched, best_matches, fuzzy_matches,
               result, error>>

vars == <<sanVars, argVars, matchVars>>

----------------------------------------------------------------------------
(* Bounds *)

MaxRaw == 3        \* items of a raw input name in the sanitizer runs
MaxRows == 2       \* input rows of a call
MaxRef == 2        \* entries of the reference table
MaxHarm == 2       \* entries of the harmonization table
MaxRefIds == 3     \* entries of a reference table with free identifiers

----------------------------------------------------------------------------
(* normalize_franchise_names.py *)

DEFAULT_MIN_CHARS == 4

\* TERM_PATTERNS: each alternative of a pattern as the sequence of its words
TERM_PATTERNS(name) ==
    CASE name = "stopwords" -> {<<"and">>, <<"by">>, <<"of">>}
      [] name = "corp" -> {<<"inc">>, <<"incorporated">>, <<"llc">>, <<"ltd">>,
                           <<"limited">>, <<"lp">>, <<"co">>, <<"corp">>,
                           <<"corporation">>, <<"company">>, <<"spv">>, <<"spe">>}
      [] name = "franchise" -> {<<"franchise">>, <<"franchises">>, <<"franchising">>,
                                <<"franchisor">>, <<"license", "program">>,
                                <<"operator", "program">>}
      [] name = "org" -> {<<"system">>, <<"systems">>, <<"holding">>, <<"holdings">>,
                          <<"enterprise">>, <<"enterprises">>}
      [] name = "geo" -> {<<"us">>, <<"usa">>, <<"north", "america">>, <<"intl">>,
                          <<"international">>}

\* dict order of TERM_PATTERNS.values()
REMOVE_ORDER == <<"stopwords", "corp", "franchise", "org", "geo">>

RESTORE_ORDER == <<"franchise", "org", "geo", "corp">>

\* len() of the string a word sequence stands for
RECURSIVE StrLen(_)
StrLen(x) ==
    IF x = <<>> THEN 0
    ELSE Len(Head(x)) + (IF Len(x) > 1 THEN 1 ELSE 0) + StrLen(Tail(x))

\* lower(), the symbol glyphs, NFD transliteration and "@" -> "at", on a chunk
FoldChunk(w) ==
    CASE w = "The" -> "the"
      [] w = "Inc" -> "inc"
      [] w = "Café" -> "cafe"
      [] w = "@" -> "at"
      [] w = "®" -> ""
      [] OTHER -> w

\* separators: whitespace and other non-alphanumerics become a space,
\* apostrophes, commas and dots are removed and join their neighbours
JOINERS == {".", ",", "'"}

RECURSIVE NormalizeFrom(_, _, _, _)
NormalizeFrom(items, i, cur, acc) ==
    IF i > Len(items)
    THEN IF cur = "" THEN acc ELSE Append(acc, cur)
    ELSE LET c == cur \o FoldChunk(items[i].w) IN
         IF items[i].sep \in JOINERS
         THEN NormalizeFrom(items, i + 1, c, acc)
         ELSE NormalizeFrom(items, i + 1, "", IF c = "" THEN acc ELSE Append(acc, c))

Normalize(items) == NormalizeFrom(items, 1, "", <<>>)

\* the trailing alternative "\b(...)$" matches: the match starting leftmost
TrailingTerm(name, x) ==
    IF Len(x) >= 2 /\ SubSeq(x, Len(x) - 1, Len(x)) \in TERM_PATTERNS(name) THEN 2
    ELSE IF Len(x) >= 1 /\ <<x[Len(x)]>> \in TERM_PATTERNS(name) THEN 1
    ELSE 0

\* re.sub(r"\b(and|by|of)\b", "", x), whitespace collapsed
RemoveStopwords(x) == SelectSeq(x, LAMBDA w : <<w>> \notin TERM_PATTERNS("stopwords"))

\* re.sub(pattern, "", x).strip(), whitespace collapsed
SubPattern(name, x) ==
    IF name = "stopwords" THEN RemoveStopwords(x)
    ELSE SubSeq(x, 1, Len(x) - TrailingTerm(name, x))

\* while True: ... if new_x == x: break
RECURSIVE RemoveUntilStable(_, _)
RemoveUntilStable(name, x) ==
    LET new_x == SubPattern(name, x) IN
    IF new_x = x THEN x ELSE RemoveUntilStable(name, new_x)

\* for pattern in TERM_PATTERNS.values()
RECURSIVE RemoveTermsFrom(_, _)
RemoveTermsFrom(k, x) ==
    IF k > Len(REMOVE_ORDER) THEN x
    ELSE RemoveTermsFrom(k + 1, RemoveUntilStable(REMOVE_ORDER[k], x))

RemoveTerms(x) == RemoveTermsFrom(1, x)

\* re.findall of "\b(...)\b": the terms of the category, left to right
RECURSIVE FindAll(_, _, _)
FindAll(name, x, i) ==
    IF i > Len(x) THEN <<>>
    ELSE IF <<x[i]>> \in TERM_PATTERNS(name)
         THEN <<(<<x[i]>>)>> \o FindAll(name, x, i + 1)
    ELSE IF i < Len(x) /\ <<x[i], x[i + 1]>> \in TERM_PATTERNS(name)
         THEN <<(<<x[i], x[i + 1]>>)>> \o FindAll(name, x, i + 2)
    ELSE FindAll(name, x, i + 1)

\* for term in matched: stop at min_chars, else append the term
RECURSIVE AppendTerms(_, _, _)
AppendTerms(matched, current, min_chars) ==
    IF matched = <<>> \/ StrLen(current) >= min_chars THEN current
    ELSE AppendTerms(Tail(matched), current \o Head(matched), min_chars)

RECURSIVE RestoreFrom(_, _, _, _)
RestoreFrom(k, normalized, current, min_chars) ==
    IF k > Len(RESTORE_ORDER) \/ StrLen(current) >= min_chars THEN current
    ELSE LET name == RESTORE_ORDER[k] IN
         RestoreFrom(k + 1, SubPattern(name, normalized),
                     AppendTerms(FindAll(name, normalized, 1), current, min_chars),
                     min_chars)

_restore_until_min_chars(normalized, current, min_chars) ==
    RestoreFrom(1, normalized, current, min_chars)

\* the rest of _sanitize_single after the removal loop
Restored(normalized, stripped, min_chars) ==
    IF min_chars > 0 /\ StrLen(stripped) < min_chars /\ StrLen(normalized) >= min_chars
    THEN _restore_until_min_chars(normalized, stripped, min_chars)
    ELSE stripped

StripThe(x, min_chars) ==
    IF Len(x) >= 2 /\ x[1] = "the" /\ StrLen(Tail(x)) > min_chars THEN Tail(x) ELSE x

\* _sanitize_single, with the intermediate strings it goes through
SanitizeTrace(raw, min_chars) ==
    IF raw.isnull
    THEN [normalized |-> <<>>, stripped |-> <<>>, result |-> <<>>]
    ELSE LET normalized == Normalize(raw.items)
             stripped == RemoveTerms(normalized)
         IN [normalized |-> normalized, stripped |-> stripped,
             result |-> StripThe(Restored(normalized, stripped, min_chars), min_chars)]

_sanitize_single(raw, min_chars) == SanitizeTrace(raw, min_chars).result

\* a sanitized string handed back in as a raw input
AsRaw(x) == [isnull |-> FALSE, items |-> [i \in 1..Len(x) |-> [w |-> x[i], sep |-> " "]]]

----------------------------------------------------------------------------
(* Sanitizer runs: sanitize_name(x, min_chars), then once more on the result *)

SanChunks == {"ab", "pizza", "The", "Café", "of", "inc", "franchise", "systems", "us",
              "@", "®"}
SanSeps == {" ", ".", "&"}
SanItems == [w : SanChunks, sep : SanSeps]
MinCharsChoices == {2, DEFAULT_MIN_CHARS, 6}

SeqsUpTo(S, n) == UNION {[1..k -> S] : k \in 0..n}

NoTrace == [normalized |-> <<>>, stripped |-> <<>>, result |-> <<>>]

----------------------------------------------------------------------------
(* match_to_fruns.py: values *)

NA == "NA"                 \* pd.NA / NaN in the fruns column
NoType == <<>>             \* NaN in the match_type column
NoName == <<"<NA>">>       \* NaN in a name column
NoDistance == 0 - 1        \* NaN in the _distance column
NoRowId == 0 - 1           \* the dropped _row_id column

\* Distances and similarities are counted in fifths of 0.0001, so that no
\* distance lies half-way between two 4-decimal values.
TicksPer4thDecimal == 2 + 3
ONE == 10000 * TicksPer4thDecimal          \* similarity 1.0
DEFAULT_MAX_DISTANCE == ONE \div 10        \* max_distance: float = 0.10

\* round(distance, 4)
Round4(d) == ((d + 2) \div TicksPer4thDecimal) * TicksPer4thDecimal

RECURSIVE Concat(_)
Concat(ss) == IF ss = <<>> THEN <<>> ELSE Head(ss) \o Concat(Tail(ss))

\* Series.unique(): first occurrences, in order
RECURSIVE Unique(_)
Unique(s) ==
    IF s = <<>> THEN <<>>
    ELSE LET rest == Unique(SubSeq(s, 1, Len(s) - 1)) IN
         IF \E i \in DOMAIN rest : rest[i] = s[Len(s)] THEN rest
         ELSE Append(rest, s[Len(s)])

\* the check of merge(validate="m:1") on the right frame's keys
IsUnique(keys) == \A i, j \in DOMAIN keys : keys[i] = keys[j] => i = j

RowIds(rows) == {rows[i].row_id : i \in DOMAIN rows}

MatchRecord(row_id, fruns, match_type, matched_brand, distance) ==
    [row_id |-> row_id, fruns |-> fruns, match_type |-> match_type,
     matched_brand |-> matched_brand, distance |-> distance]

\* pd.DataFrame()
EmptyFrame == [error |-> "", columns |-> {}, rows |-> <<>>]

----------------------------------------------------------------------------
(* normalize_franchise_names.py: harmonize_name on a Series *)

\* dict(zip(franchise, name_harmonized)): a later entry replaces an earlier one
LookupGet(hmap, key) ==
    LET hits == {i \in DOMAIN hmap : hmap[i].franchise = key} IN
    hmap[CHOOSE i \in hits : \A j \in hits : j <= i].name_harmonized

\* x.map(lookup).fillna(x).where(x.notna(), x), for one element of x
harmonize_name(x, hmap) ==
    IF \E i \in DOMAIN hmap : hmap[i].franchise = x THEN LookupGet(hmap, x) ELSE x

----------------------------------------------------------------------------
(* match_to_fruns.py *)

_prepare_input(rows, hmap) ==
    [i \in 1..Len(rows) |->
        LET sanitized == _sanitize_single(rows[i].name, DEFAULT_MIN_CHARS) IN
        [row_id |-> i - 1, payload |-> rows[i].payload, name |-> rows[i].name,
         name_sanitized |-> sanitized,
         name_harmonized |-> harmonize_name(sanitized, hmap)]]

EXACT_COLUMNS == {"_row_id", "fruns", "match_type"}

\* groupby("_row_id").size(): the franchisor entries joined to a row
NMatches(joined, id) == Cardinality({k \in DOMAIN joined : joined[k].row_id = id})

\* the rows of franchisor_joined with _n_matches == 1
ExactFranchisorAny(joined) == joined

ExactFranchisor(joined) == SelectSeq(joined, LAMBDA m : NMatches(joined, m.row_id) = 1)

\* the rows with _n_matches > 1, once each, identifier pd.NA
FranchisorMultipleFirst(joined, rows) ==
    LET multiple_rows ==
            SelectSeq(rows, LAMBDA r : NMatches(joined, r.row_id) > 1)
    IN  [i \in 1..Len(multiple_rows) |->
            MatchRecord(multiple_rows[i].row_id,
                        joined[CHOOSE k \in DOMAIN joined :
                                  /\ joined[k].row_id = multiple_rows[i].row_id
                                  /\ \A j \in 1..(k - 1) :
                                        joined[j].row_id # multiple_rows[i].row_id].fruns,
                        <<"franchisor_multiple">>, NoName, NoDistance)]

FranchisorMultiple(joined, rows) ==
    LET multiple_ids == {joined[k].row_id : k \in
                            {k \in DOMAIN joined : NMatches(joined, joined[k].row_id) > 1}}
        multiple_rows == SelectSeq(rows, LAMBDA r : r.row_id \in multiple_ids)
    IN  [i \in 1..Len(multiple_rows) |->
            MatchRecord(multiple_rows[i].row_id, NA, <<"franchisor_multiple">>,
                        NoName, NoDistance)]

_find_exact_matches(rows, reference) ==
    LET data_valid == SelectSeq(rows, LAMBDA r : r.name_harmonized # <<>>)
        fruns_brand == SelectSeq(reference, LAMBDA e : e.brand # <<>>)
        BrandHits(r) == SelectSeq(fruns_brand, LAMBDA e : e.brand = r.name_harmonized)
        exact_brand ==
            Concat([i \in 1..Len(data_valid) |->
                [k \in 1..Len(BrandHits(data_valid[i])) |->
                    MatchRecord(data_valid[i].row_id, BrandHits(data_valid[i])[k].fruns,
                                <<"exact">>, NoName, NoDistance)]])
        matched_ids == RowIds(exact_brand)
        unmatched_valid == SelectSeq(data_valid, LAMBDA r : r.row_id \notin matched_ids)
        fruns_franchisor == SelectSeq(reference, LAMBDA e : e.franchisor # <<>>)
        FranchisorHits(r) ==
            SelectSeq(fruns_franchisor, LAMBDA e : e.franchisor = r.name_harmonized)
        franchisor_joined ==
            Concat([i \in 1..Len(unmatched_valid) |->
                [k \in 1..Len(FranchisorHits(unmatched_valid[i])) |->
                    MatchRecord(unmatched_valid[i].row_id,
                                FranchisorHits(unmatched_valid[i])[k].fruns,
                                <<"franchisor">>, NoName, NoDistance)]])
    IN  IF ~IsUnique([i \in 1..Len(fruns_brand) |-> fruns_brand[i].brand])
        THEN [error |-> "MergeError", columns |-> {}, rows |-> <<>>]
        ELSE IF Len(franchisor_joined) = 0
        THEN [error |-> "", columns |-> EXACT_COLUMNS, rows |-> exact_brand]
        ELSE [error |-> "", columns |-> EXACT_COLUMNS,
              rows |-> exact_brand \o ExactFranchisor(franchisor_joined)
                       \o FranchisorMultiple(franchisor_joined, unmatched_valid)]

\* JaroWinkler.similarity (rapidfuzz): 1 for equal strings, below 1 otherwise
JaroWinklerSimilarity(table, a, b) == IF a = b THEN ONE ELSE ONE - table[{a, b}]

\* process.extractOne without its score_cutoff
extractOneNoCutoff(table, name, choices, score_cutoff) ==
    LET Score(k) == JaroWinklerSimilarity(table, name, choices[k]) IN
    CHOOSE k \in DOMAIN choices :
        /\ \A j \in DOMAIN choices : Score(j) <= Score(k)
        /\ \A j \in 1..(k - 1) : Score(j) < Score(k)

\* process.extractOne: the first choice of the highest score, None (0) when
\* that score is below score_cutoff
extractOne(table, name, choices, score_cutoff) ==
    LET Score(k) == JaroWinklerSimilarity(table, name, choices[k])
        best == CHOOSE k \in DOMAIN choices :
                    /\ \A j \in DOMAIN choices : Score(j) <= Score(k)
                    /\ \A j \in 1..(k - 1) : Score(j) < Score(k)
    IN  IF Score(best) >= score_cutoff THEN best ELSE 0

\* the loop of _match_fuzzy that fills best_matches
BestMatches(table, unique_input, unique_brands, maxd) ==
    LET score_cutoff == ONE - maxd
        Found(name) == extractOne(table, name, unique_brands, score_cutoff)
        Distance(name) ==
            ONE - JaroWinklerSimilarity(table, name, unique_brands[Found(name)])
        accepted == SelectSeq(unique_input,
                        LAMBDA name : Found(name) # 0 /\ Round4(Distance(name)) < maxd)
    IN  [i \in 1..Len(accepted) |->
            [name_harmonized |-> accepted[i],
             matched_brand |-> unique_brands[Found(accepted[i])],
             distance |-> Distance(accepted[i])]]

FUZZY_COLUMNS == {"_row_id", "fruns", "match_type", "_matched_brand", "_distance"}

UniqueInput(rows) ==
    SelectSeq(Unique([i \in 1..Len(rows) |-> rows[i].name_harmonized]),
              LAMBDA n : n # <<>>)

UniqueBrands(reference) ==
    SelectSeq(Unique([i \in 1..Len(reference) |-> reference[i].brand]),
              LAMBDA b : b # <<>>)

_match_fuzzy(rows, reference, maxd, table) ==
    LET unique_input == UniqueInput(rows)
        unique_brands == UniqueBrands(reference)
        best == BestMatches(table, unique_input, unique_brands, maxd)
        \* fruns_data[["brand_name_sanitized", "fruns"]].drop_duplicates()
        pairs == Unique([i \in 1..Len(reference) |->
                            [brand |-> reference[i].brand, fruns |-> reference[i].fruns]])
        FrunsOf(brand) == pairs[CHOOSE k \in DOMAIN pairs : pairs[k].brand = brand].fruns
        BestOf(name) == best[CHOOSE k \in DOMAIN best : best[k].name_harmonized = name]
        hit == SelectSeq(rows, LAMBDA r :
                    \E k \in DOMAIN best : best[k].name_harmonized = r.name_harmonized)
    IN  IF unique_input = <<>> \/ unique_brands = <<>>
        THEN [frame |-> EmptyFrame, best |-> <<>>]
        ELSE IF best = <<>>
        THEN [frame |-> EmptyFrame, best |-> best]
        ELSE IF ~IsUnique([k \in 1..Len(pairs) |-> pairs[k].brand])
        THEN [frame |-> [error |-> "MergeError", columns |-> {}, rows |-> <<>>],
              best |-> best]
        ELSE [frame |->
                [error |-> "", columns |-> FUZZY_COLUMNS,
                 rows |-> [i \in 1..Len(hit) |->
                    LET m == BestOf(hit[i].name_harmonized) IN
                    MatchRecord(hit[i].row_id, FrunsOf(m.matched_brand),
                                <<"fuzzy", Round4(m.distance)>>,
                                m.matched_brand, m.distance)]],
              best |-> best]

\* pd.concat([exact_matches, fuzzy_matches], ignore_index=True)
ConcatFrames(f, g) ==
    [error |-> "", columns |-> f.columns \cup g.columns, rows |-> f.rows \o g.rows]

\* rename_map: the leading underscore removed
Renamed(c) ==
    CASE c = "_matched_brand" -> "matched_brand"
      [] c = "_distance" -> "distance"
      [] OTHER -> c

KEEP_COLS == {"_row_id", "fruns", "match_type", "_matched_brand", "_distance"}
COLS == {"_row_id", "fruns", "match_type"}

_finalize_matches(prep, matches, keep) ==
    LET available_cols == (IF keep THEN KEEP_COLS ELSE COLS) \cap matches.columns
        subset_cols == IF Len(matches.rows) > 0 \/ keep THEN available_cols ELSE COLS
        subset_rows == matches.rows
        Has(c) == c \in subset_cols
        \* prepared.merge(matches_subset, on="_row_id", how="left")
        Joined(r) ==
            LET hits == SelectSeq(subset_rows, LAMBDA m : m.row_id = r.row_id) IN
            IF hits = <<>>
            THEN <<MatchRecord(r.row_id, NA, NoType, NoName, NoDistance)>>
            ELSE hits
        OutRow(r, m) ==
            [payload |-> r.payload, name |-> r.name,
             row_id |-> IF keep THEN r.row_id ELSE NoRowId,
             name_sanitized |-> IF keep THEN r.name_sanitized ELSE NoName,
             name_harmonized |-> IF keep THEN r.name_harmonized ELSE NoName,
             fruns |-> IF Has("fruns") THEN m.fruns ELSE NA,
             match_type |-> IF Has("match_type") THEN m.match_type ELSE NoType,
             matched_brand |-> IF Has("_matched_brand") THEN m.matched_brand ELSE NoName,
             distance |-> IF Has("_distance") THEN m.distance ELSE NoDistance]
    IN  IF "_row_id" \notin subset_cols
        THEN [error |-> "KeyError", columns |-> {}, rows |-> <<>>]
        ELSE [error |-> "",
              columns |-> {"payload", "name"}
                          \cup (IF keep THEN {"row_id", "name_sanitized", "name_harmonized"}
                                ELSE {})
                          \cup {Renamed(c) : c \in subset_cols \ {"_row_id"}},
              rows |-> Concat([i \in 1..Len(prep) |->
                          [k \in 1..Len(Joined(prep[i])) |->
                              OutRow(prep[i], Joined(prep[i])[k])]])]

----------------------------------------------------------------------------
(* match_to_fruns as a sequence of steps *)

\* prepared = _prepare_input(data, name_col, harmonize_map)
PrepareInput ==
    /\ pc = "start"
    /\ prepared' = _prepare_input(data, harmonize_map)
    /\ pc' = "prepared"
    /\ UNCHANGED <<exact_matches, unmatched, best_matches, fuzzy_matches, result, error>>
    /\ UNCHANGED <<argVars, sanVars>>

\* exact_matches = _find_exact_matches(prepared, fruns_data)
FindExactMatches ==
    /\ pc = "prepared"
    /\ method \in {"exact", "both"}
    /\ LET found == _find_exact_matches(prepared, fruns_data) IN
       /\ exact_matches' = found
       /\ error' = found.error
       /\ pc' = IF found.error # "" THEN "failed" ELSE "exact_tried"
    /\ UNCHANGED <<prepared, unmatched, best_matches, fuzzy_matches, result>>
    /\ UNCHANGED <<argVars, sanVars>>

\* the rows handed to _match_fuzzy if only rows with an identifier counted as matched
FuzzyInputUnresolved ==
    IF method = "fuzzy" THEN prepared
    ELSE SelectSeq(prepared, LAMBDA r :
            \A k \in DOMAIN exact_matches.rows :
                exact_matches.rows[k].row_id = r.row_id => exact_matches.rows[k].fruns = NA)

\* the rows method "fuzzy" and method "both" hand to _match_fuzzy
FuzzyInput ==
    IF method = "fuzzy" THEN prepared
    ELSE SelectSeq(prepared, LAMBDA r : r.row_id \notin RowIds(exact_matches.rows))

\* fuzzy_matches = _match_fuzzy(...), or pd.DataFrame() when nothing is left
MatchFuzzy ==
    /\ \/ method = "fuzzy" /\ pc = "prepared"
       \/ method = "both" /\ pc = "exact_tried"
    /\ LET rows == FuzzyInput
           found == IF method = "both" /\ Len(rows) = 0
                    THEN [frame |-> EmptyFrame, best |-> <<>>]
                    ELSE _match_fuzzy(rows, fruns_data, max_distance, jw)
       IN /\ unmatched' = rows
          /\ best_matches' = found.best
          /\ fuzzy_matches' = found.frame
          /\ error' = found.frame.error
          /\ pc' = IF found.frame.error # "" THEN "failed" ELSE "fuzzy_tried"
    /\ UNCHANGED <<prepared, exact_matches, result>>
    /\ UNCHANGED <<argVars, sanVars>>

\* the frame each method hands to _finalize_matches
AllMatches ==
    CASE method = "exact" -> exact_matches
      [] method = "fuzzy" -> fuzzy_matches
      [] method = "both" -> ConcatFrames(exact_matches, fuzzy_matches)

\* result = _finalize_matches(prepared, ..., keep_details); return result
FinalizeMatches ==
    /\ \/ method = "exact" /\ pc = "exact_tried"
       \/ method \in {"fuzzy", "both"} /\ pc = "fuzzy_tried"
    /\ LET final == _finalize_matches(prepared, AllMatches, keep_details) IN
       /\ result' = final
       /\ error' = final.error
       /\ pc' = IF final.error # "" THEN "failed" ELSE "done"
    /\ UNCHANGED <<prepared, exact_matches, unmatched, best_matches, fuzzy_matches>>
    /\ UNCHANGED <<argVars, sanVars>>

MatchNext == PrepareInput \/ FindExactMatches \/ MatchFuzzy \/ FinalizeMatches

\* the matcher's variables while only the sanitizer runs
MatchIdle ==
    /\ pc = "idle"
    /\ data = <<>> /\ fruns_data = <<>> /\ harmonize_map = <<>>
    /\ method = "both" /\ keep_details = FALSE /\ max_distance = DEFAULT_MAX_DISTANCE
    /\ jw = <<>>
    /\ prepared = <<>> /\ exact_matches = EmptyFrame /\ unmatched = <<>>
    /\ best_matches = <<>> /\ fuzzy_matches = EmptyFrame /\ result = EmptyFrame
    /\ error = ""

SanInit ==
    /\ san_pc = "start"
    /\ san_raw \in {[isnull |-> TRUE, items |-> <<>>]}
                   \cup {[isnull |-> FALSE, items |-> s] : s \in SeqsUpTo(SanItems, MaxRaw)}
    /\ san_min \in MinCharsChoices
    /\ san_first = NoTrace
    /\ san_second = <<>>
    /\ MatchIdle

SanitizeCall ==
    /\ san_pc = "start"
    /\ san_first' = SanitizeTrace(san_raw, san_min)
    /\ san_pc' = "once"
    /\ UNCHANGED <<san_raw, san_min, san_second, argVars, matchVars>>

SanitizeAgain ==
    /\ san_pc = "once"
    /\ san_second' = _sanitize_single(AsRaw(san_first.result), san_min)
    /\ san_pc' = "twice"
    /\ UNCHANGED <<san_raw, san_min, san_first, argVars, matchVars>>

SanNext == SanitizeCall \/ SanitizeAgain

SpecSan == SanInit /\ [][SanNext]_vars

----------------------------------------------------------------------------
(* Calls of match_to_fruns: the arguments are drawn, then the steps run *)

NameA == <<"subway">>
NameB == <<"subwey">>
NameC == <<"pizza">>
Empty == <<>>

RawNull == [isnull |-> TRUE, items |-> <<>>]                        \* None
RawEmpty == [isnull |-> FALSE, items |-> <<>>]                      \* ""
RawA == [isnull |-> FALSE,
         items |-> <<[w |-> "subway", sep |-> " "], [w |-> "Inc", sep |-> "."]>>]
RawB == [isnull |-> FALSE, items |-> <<[w |-> "subwey", sep |-> " "]>>]
RawC == [isnull |-> FALSE,
         items |-> <<[w |-> "The", sep |-> " "], [w |-> "pizza", sep |-> "'"]>>]

\* between 1 and n rows over the raw names, each with its own payload
RowSets(raws, n) ==
    UNION {{[i \in 1..k |-> [name |-> f[i], payload |-> "row" \o ToString(i)]] :
                f \in [1..k -> raws]} : k \in 1..n}

\* up to n reference entries, the identifier of entry i being "F<i>"
Tables(entries, n) ==
    UNION {{[i \in 1..k |-> [fruns |-> "F" \o ToString(i), brand |-> f[i].brand,
                             franchisor |-> f[i].franchisor]] :
                f \in [1..k -> entries]} : k \in 0..n}

Pairs(names) == {{a, b} : a \in names, b \in names} \ {{a} : a \in names}

Near == 4 * 1000           \* distance 0.08
Far == 20 * 1000           \* distance 0.4

SanIdle ==
    /\ san_pc = "idle" /\ san_raw = RawNull /\ san_min = DEFAULT_MIN_CHARS
    /\ san_first = NoTrace /\ san_second = <<>>

MatchInit(Data, Refs, Maps, Methods, Keeps, MaxDs, JwTables) ==
    /\ data \in Data
    /\ fruns_data \in Refs
    /\ harmonize_map \in Maps
    /\ method \in Methods
    /\ keep_details \in Keeps
    /\ max_distance \in MaxDs
    /\ jw \in JwTables
    /\ pc = "start"
    /\ prepared = <<>> /\ exact_matches = EmptyFrame /\ unmatched = <<>>
    /\ best_matches = <<>> /\ fuzzy_matches = EmptyFrame /\ result = EmptyFrame
    /\ error = ""
    /\ SanIdle

METHODS == {"exact", "fuzzy", "both"}

RefEntries == [brand : {Empty, NameA, NameB}, franchisor : {Empty, NameB}]
HarmEntries == {[franchise |-> NameA, name_harmonized |-> NameB],
                [franchise |-> NameA, name_harmonized |-> NameA],
                [franchise |-> Empty, name_harmonized |-> NameA]}

\* Calls in every mode over short inputs and reference tables
Init ==
    MatchInit(RowSets({RawNull, RawEmpty, RawA, RawB}, MaxRows),
              Tables(RefEntries, MaxRef),
              {<<>>, <<[franchise |-> NameA, name_harmonized |-> NameB]>>},
              METHODS, BOOLEAN, {DEFAULT_MAX_DISTANCE},
              [Pairs({NameA, NameB}) -> {Near, Far}])

Next == MatchNext

Spec == Init /\ [][Next]_vars

\* Calls with harmonization tables of up to MaxHarm different entries
InitHarm ==
    MatchInit(RowSets({RawNull, RawEmpty, RawA}, MaxRows),
              Tables(RefEntries, MaxRef),
              {m \in SeqsUpTo(HarmEntries, MaxHarm) : IsUnique(m)},
              METHODS, BOOLEAN, {DEFAULT_MAX_DISTANCE},
              [Pairs({NameA, NameB}) -> {Near}])

SpecHarm == InitHarm /\ [][Next]_vars

\* Calls with reference tables whose entries may repeat a brand or an identifier
IdEntries == [fruns : {"F1", "F2"}, brand : {Empty, NameA}, franchisor : {Empty}]

InitIntegrity ==
    MatchInit(RowSets({RawNull, RawA, RawB}, MaxRows),
              SeqsUpTo(IdEntries, MaxRefIds),
              {<<>>},
              METHODS, BOOLEAN, {DEFAULT_MAX_DISTANCE},
              [Pairs({NameA, NameB}) -> {Near, Far}])

SpecIntegrity == InitIntegrity /\ [][Next]_vars

\* Calls with distances and thresholds around each other
FineDistances == {DEFAULT_MAX_DISTANCE - TicksPer4thDecimal,    \* 0.0999
                  DEFAULT_MAX_DISTANCE - 2,                     \* 0.09996
                  DEFAULT_MAX_DISTANCE,                         \* 0.1
                  DEFAULT_MAX_DISTANCE + 2,                     \* 0.10004
                  Far}
FineThresholds == {DEFAULT_MAX_DISTANCE - TicksPer4thDecimal,   \* 0.0999
                   DEFAULT_MAX_DISTANCE,                        \* 0.1
                   DEFAULT_MAX_DISTANCE + 1}                    \* 0.10002

InitFuzzy ==
    MatchInit(RowSets({RawA, RawC}, MaxRows),
              Tables([brand : {NameA, NameB}, franchisor : {Empty}], MaxRef),
              {<<>>},
              METHODS, {FALSE}, FineThresholds,
              {t \in [Pairs({NameA, NameB, NameC}) -> FineDistances] :
                    t[{NameA, NameB}] = Far})

SpecFuzzy == InitFuzzy /\ [][Next]_vars

----------------------------------------------------------------------------
(* Properties *)

Returned == pc = "done"

\* two reference entries share a non-empty canonical brand name
DuplicateBrand ==
    \E i, j \in DOMAIN fruns_data :
        i # j /\ fruns_data[i].brand # <<>> /\ fruns_data[i].brand = fruns_data[j].brand

\* two harmonization entries share a key
DuplicateKey ==
    \E i, j \in DOMAIN harmonize_map :
        i # j /\ harmonize_map[i].franchise = harmonize_map[j].franchise

IsBrand(h) == \E k \in DOMAIN fruns_data : fruns_data[k].brand = h
FranchisorCount(h) == Cardinality({k \in DOMAIN fruns_data : fruns_data[k].franchisor = h})

\* a non-empty name that is no brand and the franchisor of two or more entries
AmbiguousFranchisor(h) == h # <<>> /\ ~IsBrand(h) /\ FranchisorCount(h) >= 2

\* a non-empty name for which the Exact Matcher has a brand or a franchisor
ExactlyKnown(h) == h # <<>> /\ (IsBrand(h) \/ FranchisorCount(h) >= 1)

JwDistance(a, b) == IF a = b THEN 0 ELSE jw[{a, b}]

\* output row i, when the output has one
OutRowIs(i, type, fruns) ==
    /\ i <= Len(result.rows)
    /\ result.rows[i].match_type = type
    /\ result.rows[i].fruns = fruns

\* C1: whenever match_to_fruns returns, in any mode and with any keep_details,
\* the output has one row per input row, in the input order, each carrying the
\* fields of its input row.
C1_OneRowPerInputRow ==
    Returned =>
        /\ Len(result.rows) = Len(data)
        /\ \A i \in DOMAIN data :
              /\ result.rows[i].payload = data[i].payload
              /\ result.rows[i].name = data[i].name

\* C1 witness: a returned two-row result with one matched and one unmatched row
C1_Witness ==
    /\ Returned /\ Len(data) = 2 /\ Len(result.rows) = 2
    /\ result.rows[1].match_type = NoType
    /\ result.rows[2].match_type # NoType
    /\ result.rows[2].payload = data[2].payload

\* C2: with two reference entries of the same non-empty brand name the call
\* never returns a result, in any mode.
C2_DuplicateBrandNeverReturns == DuplicateBrand => ~Returned

\* C3: in mode exact, a returned row whose harmonized name is no brand and is
\* the franchisor of two or more entries has match_type franchisor_multiple and
\* a null identifier.
C3_AmbiguousFranchisorIsNull ==
    Returned /\ method = "exact" =>
        \A i \in DOMAIN prepared :
            AmbiguousFranchisor(prepared[i].name_harmonized)
                => OutRowIs(i, <<"franchisor_multiple">>, NA)

\* C3 witness: mode exact returned such a row
C3_Witness ==
    /\ Returned /\ method = "exact"
    /\ \E i \in DOMAIN prepared :
          /\ AmbiguousFranchisor(prepared[i].name_harmonized)
          /\ OutRowIs(i, <<"franchisor_multiple">>, NA)

\* a reference brand the Fuzzy Matcher would accept for the name
BrandWithin(h, k) ==
    /\ fruns_data[k].brand # <<>>
    /\ JwDistance(h, fruns_data[k].brand) <= max_distance
    /\ Round4(JwDistance(h, fruns_data[k].brand)) < max_distance

\* C4 as stated: in mode both a franchisor_multiple row with a reference brand
\* within max_distance ends with a fuzzy tag and that brand's identifier.
C4_MultipleRowsReachFuzzy ==
    Returned /\ method = "both" =>
        \A i \in DOMAIN prepared :
            (/\ AmbiguousFranchisor(prepared[i].name_harmonized)
             /\ \E k \in DOMAIN fruns_data : BrandWithin(prepared[i].name_harmonized, k))
            => /\ i <= Len(result.rows)
               /\ result.rows[i].match_type # NoType
               /\ result.rows[i].match_type[1] = "fuzzy"
               /\ \E k \in DOMAIN fruns_data :
                     /\ BrandWithin(prepared[i].name_harmonized, k)
                     /\ result.rows[i].fruns = fruns_data[k].fruns

\* C4 amended: in mode both the rows passed to the Fuzzy Matcher are exactly the
\* rows for which the Exact Matcher found neither a brand nor a franchisor; a
\* franchisor_multiple row is not among them and is returned with its
\* franchisor_multiple tag and a null identifier.
C4_FuzzyGetsRowsWithoutExactRecord ==
    /\ pc \in {"fuzzy_tried", "done"} /\ method = "both" =>
          unmatched = SelectSeq(prepared, LAMBDA r : ~ExactlyKnown(r.name_harmonized))
    /\ Returned /\ method = "both" =>
          \A i \in DOMAIN prepared :
              AmbiguousFranchisor(prepared[i].name_harmonized)
                  => OutRowIs(i, <<"franchisor_multiple">>, NA)

\* C4 witness: mode both returned a franchisor_multiple row although a
\* reference brand lies within max_distance of its name
C4_Witness ==
    /\ Returned /\ method = "both"
    /\ \E i \in DOMAIN prepared :
          /\ AmbiguousFranchisor(prepared[i].name_harmonized)
          /\ \E k \in DOMAIN fruns_data : BrandWithin(prepared[i].name_harmonized, k)
          /\ OutRowIs(i, <<"franchisor_multiple">>, NA)
          /\ prepared[i].row_id \notin RowIds(unmatched)

\* C5: with a key twice in the harmonization table, harmonize_name fails, so
\* the call never gets past the preparation of its input.
C5_DuplicateKeyFails == DuplicateKey => pc \in {"start", "failed"}

\* C6: a returned row whose input name is null or the empty string has a null
\* identifier and no match_type.
C6_EmptyNameUnmatched ==
    Returned =>
        \A i \in DOMAIN data :
            (data[i].name.isnull \/ data[i].name.items = <<>>) => OutRowIs(i, NoType, NA)

\* smallest distance from the name to a non-empty reference brand
BestDistance(h) ==
    LET ds == {JwDistance(h, fruns_data[k].brand) :
                  k \in {k \in DOMAIN fruns_data : fruns_data[k].brand # <<>>}}
    IN  CHOOSE d \in ds : \A e \in ds : d <= e

FuzzyNames == {unmatched[i].name_harmonized : i \in DOMAIN unmatched} \ {<<>>}
HasBrands == \E k \in DOMAIN fruns_data : fruns_data[k].brand # <<>>
Accepted(h) == \E k \in DOMAIN best_matches : best_matches[k].name_harmonized = h
FuzzyRan == pc \in {"fuzzy_tried", "done"}

\* C7 as stated: the best brand of a name is accepted if and only if its
\* distance rounded to 4 decimals is strictly less than max_distance.
C7_AcceptedIffRoundedBelow ==
    FuzzyRan /\ HasBrands =>
        \A h \in FuzzyNames :
            Accepted(h) <=> Round4(BestDistance(h)) < max_distance

\* C7 amended: the best brand of a name is accepted if and only if its distance
\* is at most max_distance and its distance rounded to 4 decimals is strictly
\* less than max_distance; so a best brand whose rounded distance equals
\* max_distance is not accepted and one at max_distance - 0.0001 is.
C7_AcceptedIffWithinAndRoundedBelow ==
    FuzzyRan /\ HasBrands =>
        \A h \in FuzzyNames :
            /\ Accepted(h) <=> /\ BestDistance(h) <= max_distance
                               /\ Round4(BestDistance(h)) < max_distance
            /\ Round4(BestDistance(h)) = max_distance => ~Accepted(h)
            /\ BestDistance(h) = max_distance - TicksPer4thDecimal => Accepted(h)
            /\ \A k \in DOMAIN best_matches :
                  best_matches[k].name_harmonized = h
                      => best_matches[k].distance = BestDistance(h)

\* C7 witness: the Fuzzy Matcher accepted a best brand at max_distance - 0.0001
C7_Witness ==
    /\ FuzzyRan /\ HasBrands
    /\ \E h \in FuzzyNames :
          /\ BestDistance(h) = max_distance - TicksPer4thDecimal
          /\ Accepted(h)

\* C8: with the default min_chars, sanitizing a sanitized name changes nothing.
C8_SanitizeIdempotent ==
    san_pc = "twice" /\ san_min = DEFAULT_MIN_CHARS => san_second = san_first.result

SUFFIX_CATEGORIES == {"corp", "franchise", "org", "geo"}

EndsWith(x, t) == Len(x) >= Len(t) /\ SubSeq(x, Len(x) - Len(t) + 1, Len(x)) = t

\* C9: when the normalized name is the non-empty stripped part followed by one
\* term of a suffix category, the stripped part is shorter than min_chars and
\* the normalized name is not, the result ends with that term and is at least
\* min_chars long.
C9_RemovedTermRestored ==
    san_pc \in {"once", "twice"} /\ san_min >= 1 =>
        \A c \in SUFFIX_CATEGORIES : \A t \in TERM_PATTERNS(c) :
            (/\ san_first.stripped # <<>>
             /\ san_first.normalized = san_first.stripped \o t
             /\ StrLen(san_first.stripped) < san_min
             /\ StrLen(san_first.normalized) >= san_min)
            => /\ EndsWith(san_first.result, t)
               /\ StrLen(san_first.result) >= san_min

\* C10: a reference table whose non-empty brand names are all distinct never
\* makes the call fail.
C10_DistinctBrandsNeverFail == ~DuplicateBrand => pc # "failed"

====
